---- MODULE Spec2Model ----
(***************************************************************************)
(* Least-Squares Monte Carlo pricing of a Bermudan put                     *)
(* (LSMC_with_TPyTorch.ipynb).                                            *)
(*                                                                         *)
(* Tensors of length n are sequences.  A real-valued tensor is a record    *)
(* [num, den, nan]: the entries num[p] / den over one common denominator   *)
(* den >= 1, kept in lowest terms, or the all-NaN tensor when nan holds.   *)
(* All arithmetic is exact rational arithmetic; exp(-r*dt) is the rational *)
(* discount below and exp(-r*i*dt) its i-th power.                         *)
(***************************************************************************)
EXTENDS Integers, Sequences, FiniteSets, TLC

VARIABLES pc, n, m, order, Spot, K, S, cashflow, value, continuation_value,
          payoff, first_payoff, price, err, calls, visited, arg, ret

vars == <<pc, n, m, order, Spot, K, S, cashflow, value, continuation_value,
          payoff, first_payoff, price, err, calls, visited, arg, ret>>

runVars == <<pc, n, m, order, Spot, K, S, cashflow, value, continuation_value,
             payoff, first_payoff, price, err, calls, visited>>

(***************************************************************************)
(* Bounds of the model and the parameter values it is run with.            *)
(***************************************************************************)
MaxN == 3
MaxM == 3
MaxRows == 1
MaxCols == 3
MaxPay == 3
MaxLen == 2
MaxK == 4

\* penalty of ridge_regression (its default argument, never overridden)
lambda == 100

\* polynomial orders for which chebyshev_basis yields a two-column design
\* matrix, so that the solve of ridge_regression is a 2 x 2 system
Orders == {0, 1, 2}
Spots == {102, 204}
Strikes == {103}

\* r * dt = 7/10 and sigma = 1, in tenths; dB is drawn in tenths too, so a
\* step multiplies a price by (10 + 7 + dB) / 10
Rate == [unit |-> 10, rdt |-> 7, sigma |-> 1]
Draws == {-17, -7}

\* exp(-r * dt) for r * dt = 7/10, as a rational
discount == [num |-> 1, den |-> 2]

(***************************************************************************)
(* Exact arithmetic on tensors.                                            *)
(***************************************************************************)
Abs(a) == IF a < 0 THEN -a ELSE a

RECURSIVE GCD(_, _)
GCD(a, b) == IF b = 0 THEN Abs(a) ELSE GCD(b, a % Abs(b))

RECURSIVE SeqGCD(_, _)
SeqGCD(s, g) == IF s = <<>> THEN g ELSE SeqGCD(Tail(s), GCD(g, Head(s)))

RECURSIVE Sum(_)
Sum(s) == IF s = <<>> THEN 0 ELSE Head(s) + Sum(Tail(s))

RECURSIVE Pow(_, _)
Pow(b, e) == IF e = 0 THEN 1 ELSE b * Pow(b, e - 1)

Dot(a, b) == Sum([p \in DOMAIN a |-> a[p] * b[p]])

NaNVec(len) == [num |-> [p \in 1..len |-> 0], den |-> 1, nan |-> TRUE]

\* lowest terms, positive denominator
Reduce(v) ==
    IF v.nan THEN NaNVec(Len(v.num))
    ELSE LET g == SeqGCD(v.num, v.den)
             s == IF v.den < 0 THEN -g ELSE g
         IN  [num |-> [p \in DOMAIN v.num |-> v.num[p] \div s],
              den |-> v.den \div s, nan |-> FALSE]

Vec(ints) == [num |-> ints, den |-> 1, nan |-> FALSE]

Const(c, len) == Vec([p \in 1..len |-> c])

VAdd(a, b) ==
    Reduce([num |-> [p \in DOMAIN a.num |-> a.num[p] * b.den + b.num[p] * a.den],
            den |-> a.den * b.den, nan |-> a.nan \/ b.nan])

VSub(a, b) ==
    Reduce([num |-> [p \in DOMAIN a.num |-> a.num[p] * b.den - b.num[p] * a.den],
            den |-> a.den * b.den, nan |-> a.nan \/ b.nan])

VMul(a, b) ==
    Reduce([num |-> [p \in DOMAIN a.num |-> a.num[p] * b.num[p]],
            den |-> a.den * b.den, nan |-> a.nan \/ b.nan])

\* scalar q = [num, den] times tensor
VScale(q, a) ==
    Reduce([num |-> [p \in DOMAIN a.num |-> q.num * a.num[p]],
            den |-> q.den * a.den, nan |-> a.nan])

\* a > b elementwise, cast to the 0/1 tensor; a comparison with NaN is false
VGt(a, b) ==
    Vec([p \in DOMAIN a.num |->
            IF ~a.nan /\ ~b.nan /\ a.num[p] * b.den > b.num[p] * a.den
            THEN 1 ELSE 0])

\* torch.clamp(v, min=0.)
ClampMin0(v) ==
    IF v.nan THEN v
    ELSE [v EXCEPT !.num = [p \in DOMAIN v.num |-> IF v.num[p] < 0 THEN 0 ELSE v.num[p]]]

MinOf(x) == CHOOSE a \in {x[p] : p \in DOMAIN x} : \A p \in DOMAIN x : a <= x[p]
MaxOf(x) == CHOOSE a \in {x[p] : p \in DOMAIN x} : \A p \in DOMAIN x : a >= x[p]

(***************************************************************************)
(* Auxiliary functions of the notebook.                                    *)
(***************************************************************************)
RECURSIVE ChebLoop(_, _, _, _)
ChebLoop(B, x, j, k) ==
    IF j >= k THEN B
    ELSE ChebLoop(Append(B, VSub(VScale([num |-> 2, den |-> 1], VMul(x, B[j])),
                                 B[j - 1])),
                  x, j + 1, k)

\* B[0] = ones, B[1] = x, B[j] = 2 x B[j-1] - B[j-2] for j in range(2, k);
\* the columns, in insertion order (column j of the code is element j + 1)
chebyshev_basis(x, k) == ChebLoop(<<Const(1, Len(x.num)), x>>, x, 2, k)

\* (x - xmin) mapped affinely: a = 2 / (xmax - xmin), b = -a (xmin + xmax) / 2;
\* a zero range makes a infinite and a * x + b NaN
scale(x) ==
    LET xmin == MinOf(x.num)
        xmax == MaxOf(x.num)
    IN  IF xmax = xmin THEN NaNVec(Len(x.num))
        ELSE Reduce([num |-> [p \in DOMAIN x.num |->
                                 2 * x.num[p] - x.den * (xmin + xmax)],
                     den |-> xmax - xmin, nan |-> FALSE])

\* out = S + r S dt + sigma S dB, in tenths
advance(Sv, dB) ==
    Vec([p \in DOMAIN Sv.num |->
            (Rate.unit * Sv.num[p] + Rate.rdt * Sv.num[p]
               + Rate.sigma * Sv.num[p] * dB[p]) \div Rate.unit])

\* (cond * x_1) + ((1 - cond) * x_2)
where(cond, x_1, x_2) ==
    VAdd(VMul(cond, x_1), VMul(VSub(Const(1, Len(cond.num)), cond), x_2))

\* lambda * torch.eye(ord) added to the 2 x 2 matrix X'X: the identity when
\* ord = 2, the 1 x 1 matrix [[1]] broadcast to every entry when ord = 1,
\* and a shape mismatch otherwise
Penalty(ord) ==
    IF ord = 2 THEN [ok |-> TRUE, d |-> lambda, o |-> 0]
    ELSE IF ord = 1 THEN [ok |-> TRUE, d |-> lambda, o |-> lambda]
    ELSE [ok |-> FALSE, d |-> 0, o |-> 0]

\* beta = solve(X'Y, X'X + lambda I); returns X beta.  X has two columns.
\* status: "ok", "shape" (operands do not broadcast), "singular" (the solve
\* finds a zero pivot), "nan" (the operands hold NaN)
ridge_regression(X, Y, ord) ==
    LET pen == Penalty(ord)
        c0 == X[1].num
        c1 == X[2].num
        d0 == X[1].den
        d1 == X[2].den
        a00 == Dot(c0, c0) + pen.d * d0 * d0
        a01 == Dot(c0, c1) + pen.o * d0 * d1
        a11 == Dot(c1, c1) + pen.d * d1 * d1
        b0 == Dot(c0, Y.num)
        b1 == Dot(c1, Y.num)
        det == a00 * a11 - a01 * a01
        g0 == a11 * b0 - a01 * b1
        g1 == a00 * b1 - a01 * b0
    IN  IF ~pen.ok THEN [status |-> "shape", fit |-> NaNVec(Len(Y.num))]
        ELSE IF X[1].nan \/ X[2].nan \/ Y.nan
             THEN [status |-> "nan", fit |-> NaNVec(Len(Y.num))]
        ELSE IF det = 0 THEN [status |-> "singular", fit |-> NaNVec(Len(Y.num))]
        ELSE [status |-> "ok",
              fit |-> Reduce([num |-> [p \in DOMAIN Y.num |-> c0[p] * g0 + c1[p] * g1],
                              den |-> Y.den * det, nan |-> FALSE])]

\* first_one with lag = sum_x, the column of ones and the shift left out
FirstOneRowNoShift(original) ==
    LET x == [i \in DOMAIN original |-> IF original[i] > 0 THEN 1 ELSE 0]
        x_not == [i \in DOMAIN x |-> 1 - x[i]]
        cumprod[i \in DOMAIN x] == IF i = 1 THEN x_not[1] ELSE cumprod[i - 1] * x_not[i]
        sum_x == [i \in DOMAIN x |-> IF cumprod[i] > 1 THEN 1 ELSE cumprod[i]]
    IN  [i \in DOMAIN original |-> original[i] * (sum_x[i] * x[i])]

\* one row of first_one
FirstOneRow(original) ==
    LET x == [i \in DOMAIN original |-> IF original[i] > 0 THEN 1 ELSE 0]
        x_not == [i \in DOMAIN x |-> 1 - x[i]]
        cumprod[i \in DOMAIN x] == IF i = 1 THEN x_not[1] ELSE cumprod[i - 1] * x_not[i]
        sum_x == [i \in DOMAIN x |-> IF cumprod[i] > 1 THEN 1 ELSE cumprod[i]]
        lag == [i \in DOMAIN x |-> IF i = 1 THEN 1 ELSE sum_x[i - 1]]
    IN  [i \in DOMAIN original |-> original[i] * (lag[i] * x[i])]

first_one(x) == [p \in DOMAIN x |-> FirstOneRow(x[p])]

\* torch.stack(list, dim=1): row p holds entry p of every tensor of the list
Stack(vs, len) == [p \in 1..len |-> [i \in DOMAIN vs |-> vs[i].num[p]]]

(***************************************************************************)
(* The pricing run.                                                        *)
(***************************************************************************)
\* a grid whose np.arange keeps the end point T + dt
NumDatesInclusive(steps) == steps + 1

\* len(t_span), t_span = np.round(np.arange(dt, T + dt, dt), 6): the dates
\* dt, 2 dt, ..., T, named 1..steps here
NumDates(steps) == steps

\* the loop taken forward, `for t in t_span[:-1]`
BackwardDateAscending(steps, filled) == filled

\* the date the backward loop `for t in t_span[::-1][1:]` takes when `filled`
\* dates (T first) hold a value
BackwardDate(steps, filled) == steps - filled

\* cashflow[t] >= continuation_value[t]: a tie exercises
ExerciseOnTie(cash, cont) ==
    Vec([p \in DOMAIN cash.num |->
            IF ~cash.nan /\ ~cont.nan /\ cash.num[p] * cont.den >= cont.num[p] * cash.den
            THEN 1 ELSE 0])

\* cashflow[t] > continuation_value[t], the condition of the value recursion
Exercise(cash, cont) == VGt(cash, cont)

\* continuation_value[t] > cashflow[t], the condition of the payoff table
Continue(cont, cash) == VGt(cont, cash)

None == [num |-> 0, den |-> 0, nan |-> FALSE]

InitRun ==
    /\ pc = "start"
    /\ n \in 0..MaxN
    /\ m \in 0..MaxM
    /\ order \in Orders
    /\ Spot \in Spots
    /\ K \in Strikes
    /\ S = <<>>
    /\ cashflow = <<>>
    /\ value = <<>>
    /\ continuation_value = <<>>
    /\ payoff = <<>>
    /\ first_payoff = <<>>
    /\ price = None
    /\ err = "none"
    /\ calls = [advance |-> 0, ridge |-> 0]
    /\ visited = <<>>

Idle == arg = <<>> /\ ret = <<>>

Init == InitRun /\ Idle

\* the statement the run is at, and whether its loop has iterations left
CanSetup == pc = "start"
CanAdvance == pc = "simulate" /\ Cardinality(DOMAIN S) <= NumDates(m)
CanRecursion == pc = "simulate" /\ Cardinality(DOMAIN S) = NumDates(m) + 1
CanBackward == pc = "backward" /\ Cardinality(DOMAIN value) < m
CanPayoff == pc = "backward" /\ Cardinality(DOMAIN value) = m
CanSelect == pc = "select"
CanAggregate == pc = "aggregate"

CanStep ==
    \/ CanSetup \/ CanAdvance \/ CanRecursion \/ CanBackward
    \/ CanPayoff \/ CanSelect \/ CanAggregate

Fail(kind) ==
    /\ pc' = "error"
    /\ err' = kind

\* dt = T / m, S = {0.: Spot * torch.ones(n)} and t_span
Setup ==
    /\ CanSetup
    /\ IF m = 0
       THEN /\ Fail("ZeroDivisionError")
            /\ S' = S
       ELSE /\ pc' = "simulate"
            /\ err' = err
            /\ S' = [t \in 0..0 |-> Const(Spot, n)]
    /\ UNCHANGED <<n, m, order, Spot, K, cashflow, value, continuation_value,
                   payoff, first_payoff, price, calls, visited, arg, ret>>

\* one iteration of `for t in t_span: S[t] = advance(S[t_previous])`
Advance ==
    /\ CanAdvance
    /\ LET t == Cardinality(DOMAIN S)
       IN  /\ \E dB \in [1..n -> Draws] :
                 S' = [i \in 0..t |-> IF i < t THEN S[i] ELSE advance(S[t - 1], dB)]
    /\ calls' = [calls EXCEPT !.advance = @ + 1]
    /\ UNCHANGED <<pc, n, m, order, Spot, K, cashflow, value, continuation_value,
                   payoff, first_payoff, price, err, visited, arg, ret>>

\* discount, cashflow, value = {T: ...}, continuation_value = {T: zeros}
Recursion ==
    /\ CanRecursion
    /\ pc' = "backward"
    /\ cashflow' = [t \in 1..m |-> ClampMin0(VSub(Const(K, n), S[t]))]
    /\ value' = [t \in m..m |-> VScale(discount, cashflow'[m])]
    /\ continuation_value' = [t \in m..m |-> Const(0, n)]
    /\ UNCHANGED <<n, m, order, Spot, K, S, payoff, first_payoff, price, err,
                   calls, visited, arg, ret>>

\* one iteration of `for t in t_span[::-1][1:]`
Backward ==
    /\ CanBackward
    /\ LET t == BackwardDate(m, Cardinality(DOMAIN value))
           t_next == t + 1
       IN  /\ visited' = Append(visited, t)
           /\ IF n = 0
              THEN \* torch.min of an empty tensor
                   /\ Fail("RuntimeError")
                   /\ UNCHANGED <<value, continuation_value, calls>>
              ELSE IF t_next \notin DOMAIN value
              THEN \* value[t_next] of a date that holds no value
                   /\ Fail("KeyError")
                   /\ UNCHANGED <<value, continuation_value, calls>>
              ELSE LET basis == chebyshev_basis(scale(S[t]), order)
                       reg == ridge_regression(basis, value[t_next], order)
                   IN  /\ calls' = [calls EXCEPT !.ridge = @ + 1]
                       /\ \E raised \in BOOLEAN :
                            IF reg.status \in {"shape", "singular"}
                               \/ (reg.status = "nan" /\ raised)
                            THEN /\ Fail("RuntimeError")
                                 /\ UNCHANGED <<value, continuation_value>>
                            ELSE /\ continuation_value' =
                                      [i \in t..m |-> IF i = t THEN reg.fit
                                                      ELSE continuation_value[i]]
                                 /\ value' =
                                      [i \in t..m |->
                                         IF i = t
                                         THEN VScale(discount,
                                                     where(Exercise(cashflow[t], reg.fit),
                                                           cashflow[t], value[t_next]))
                                         ELSE value[i]]
                                 /\ UNCHANGED <<pc, err>>
    /\ UNCHANGED <<n, m, order, Spot, K, S, cashflow, payoff, first_payoff, price,
                   arg, ret>>

\* payoff = {t: where(continuation_value[t] > cashflow[t], zeros, cashflow[t])},
\* stacked into the n x m matrix
Payoff ==
    /\ CanPayoff
    /\ pc' = "select"
    /\ payoff' = Stack([t \in 1..m |->
                          where(Continue(continuation_value[t], cashflow[t]),
                                Const(0, n), cashflow[t])], n)
    /\ UNCHANGED <<n, m, order, Spot, K, S, cashflow, value, continuation_value,
                   first_payoff, price, err, calls, visited, arg, ret>>

\* payoff = first_one(payoff)
Select ==
    /\ CanSelect
    /\ pc' = "aggregate"
    /\ first_payoff' = first_one(payoff)
    /\ UNCHANGED <<n, m, order, Spot, K, S, cashflow, value, continuation_value,
                   payoff, price, err, calls, visited, arg, ret>>

\* column i discounted back from its date (i + 1) dt
DiscountPowerByDate(i) == i + 1

\* exponent of the discount factor applied to column i (0-based) of the matrix
DiscountPower(i) == i

\* sum over i in range(m) of payoff[:, i] * exp(-r * i * dt), divided by n
Price(pay, paths, steps) ==
    IF paths = 0 THEN [num |-> 0, den |-> 1, nan |-> TRUE]
    ELSE LET top == DiscountPower(steps - 1)
             col(i) == Sum([p \in 1..paths |-> pay[p][i + 1]])
             term(i) == col(i) * Pow(discount.num, DiscountPower(i))
                               * Pow(discount.den, top - DiscountPower(i))
             total == Sum([j \in 1..steps |-> term(j - 1)])
             den == paths * Pow(discount.den, top)
             g == GCD(total, den)
         IN  [num |-> total \div g, den |-> den \div g, nan |-> FALSE]

Aggregate ==
    /\ CanAggregate
    /\ pc' = "done"
    /\ price' = Price(first_payoff, n, m)
    /\ UNCHANGED <<n, m, order, Spot, K, S, cashflow, value, continuation_value,
                   payoff, first_payoff, err, calls, visited, arg, ret>>

Next ==
    \/ Setup
    \/ Advance
    \/ Recursion
    \/ Backward
    \/ Payoff
    \/ Select
    \/ Aggregate

Spec == Init /\ [][Next]_vars

(***************************************************************************)
(* first_one and chebyshev_basis on their own: the argument is drawn in    *)
(* the initial state and one step applies the function.                    *)
(***************************************************************************)
Blank ==
    /\ n = 0 /\ m = 0 /\ order = 0 /\ Spot = 0 /\ K = 0
    /\ S = <<>> /\ cashflow = <<>> /\ value = <<>> /\ continuation_value = <<>>
    /\ payoff = <<>> /\ first_payoff = <<>> /\ price = None /\ err = "none"
    /\ calls = [advance |-> 0, ridge |-> 0] /\ visited = <<>>

Matrices ==
    UNION {[1..rows -> [1..cols -> 0..MaxPay]] : rows \in 1..MaxRows, cols \in 1..MaxCols}

InitFirstOne ==
    /\ Blank
    /\ pc = "call"
    /\ arg \in Matrices
    /\ ret = <<>>

CallFirstOne ==
    /\ pc = "call"
    /\ pc' = "returned"
    /\ ret' = first_one(arg)
    /\ UNCHANGED <<n, m, order, Spot, K, S, cashflow, value, continuation_value,
                   payoff, first_payoff, price, err, calls, visited, arg>>

SpecFirstOne == InitFirstOne /\ [][CallFirstOne]_vars

\* tensors with entries in {-1, -1/2, 0, 1/2, 1}
Points ==
    {Reduce([num |-> v, den |-> 2, nan |-> FALSE]) :
        v \in UNION {[1..len -> -2..2] : len \in 1..MaxLen}}

InitCheb ==
    /\ Blank
    /\ pc = "call"
    /\ arg \in [x : Points, k : 0..MaxK]
    /\ ret = <<>>

CallCheb ==
    /\ pc = "call"
    /\ pc' = "returned"
    /\ ret' = chebyshev_basis(arg.x, arg.k)
    /\ UNCHANGED <<n, m, order, Spot, K, S, cashflow, value, continuation_value,
                   payoff, first_payoff, price, err, calls, visited, arg>>

SpecCheb == InitCheb /\ [][CallCheb]_vars

(***************************************************************************)
(* Properties.                                                             *)
(***************************************************************************)
Paths == 1..n
Dates == 1..m

\* entry p of tensor a is greater than / equal to entry p of tensor b
EntryGt(a, b, p) == ~a.nan /\ ~b.nan /\ a.num[p] * b.den > b.num[p] * a.den
EntryEq(a, b, p) == ~a.nan /\ ~b.nan /\ a.num[p] * b.den = b.num[p] * a.den

\* entry p of tensor a equals discount times entry p of tensor b
EntryIsDiscounted(a, b, p) ==
    ~a.nan /\ ~b.nan /\ a.num[p] * b.den * discount.den = discount.num * b.num[p] * a.den

FirstPositive(row) ==
    CHOOSE i \in DOMAIN row : row[i] > 0 /\ \A j \in DOMAIN row : j < i => row[j] <= 0

\* C1: every row of first_one's result has at most one non-zero entry; when
\* the row of the argument has a positive entry the result holds that row's
\* first positive entry in its own column; an all-zero row stays all zero.
C1_FirstOne ==
    pc = "returned" =>
        \A p \in DOMAIN arg :
            LET row == arg[p]
                out == ret[p]
            IN  /\ DOMAIN out = DOMAIN row
                /\ Cardinality({i \in DOMAIN out : out[i] # 0}) <= 1
                /\ (\E i \in DOMAIN row : row[i] > 0) =>
                       /\ out[FirstPositive(row)] = row[FirstPositive(row)]
                       /\ out[FirstPositive(row)] # 0
                /\ (\A i \in DOMAIN row : row[i] = 0) =>
                       \A i \in DOMAIN out : out[i] = 0

\* a row whose first positive entry is not in the first column and is
\* followed by another positive entry, and an all-zero row
C1_Witness ==
    /\ pc = "returned"
    /\ \E p \in DOMAIN arg :
          /\ Len(arg[p]) = 3
          /\ arg[p][1] = 0 /\ arg[p][2] > 0 /\ arg[p][3] > 0
          /\ ret[p] = <<0, arg[p][2], 0>>

ValueSet == pc \in {"backward", "select", "aggregate", "done"}

\* C2: value[T] is the discounted cashflow at T and continuation_value[T] is
\* zero; at every earlier date value[t] is discount * cashflow[t] where
\* cashflow[t] > continuation_value[t] strictly and discount * value[t_next]
\* otherwise, a tie included.
C2_ValueTable ==
    ValueSet =>
        \A t \in DOMAIN value : \A p \in Paths :
            IF t = m
            THEN /\ EntryIsDiscounted(value[t], cashflow[t], p)
                 /\ continuation_value[t].num[p] = 0
                 /\ ~continuation_value[t].nan
            ELSE IF EntryGt(cashflow[t], continuation_value[t], p)
                 THEN EntryIsDiscounted(value[t], cashflow[t], p)
                 ELSE EntryIsDiscounted(value[t], value[t + 1], p)

\* a path whose positive cashflow equals its continuation value at a date
\* before T, where continuing and exercising are worth different amounts
C2_Witness ==
    /\ ValueSet
    /\ \E t \in DOMAIN value : \E p \in Paths :
          /\ t < m
          /\ cashflow[t].num[p] > 0
          /\ EntryEq(cashflow[t], continuation_value[t], p)
          /\ EntryIsDiscounted(value[t], value[t + 1], p)
          /\ ~EntryIsDiscounted(value[t], cashflow[t], p)

PayoffSet == pc \in {"select", "aggregate", "done"}

NoNaN == \A t \in DOMAIN continuation_value : ~continuation_value[t].nan

\* C3: payoff[t] is cashflow[t] where cashflow[t] > continuation_value[t]
\* strictly and 0 otherwise, so a path whose cashflow equals its continuation
\* value gets payoff 0 (stated for the runs of order 2 whose continuation
\* values are numbers).
C3_PayoffTable ==
    (PayoffSet /\ NoNaN /\ order = 2) =>
        \A t \in Dates : \A p \in Paths :
            payoff[p][t] = IF EntryGt(cashflow[t], continuation_value[t], p)
                           THEN cashflow[t].num[p] ELSE 0

\* the power of the one-step discount factor times the column sums, over the
\* common denominator discount.den ^ (m - 1)
RECURSIVE ColumnTerms(_, _)
ColumnTerms(pay, i) ==
    IF i = 0 THEN 0
    ELSE ColumnTerms(pay, i - 1)
         + Sum([p \in Paths |-> pay[p][i]])
             * Pow(discount.num, i - 1) * Pow(discount.den, m - i)

\* C4: the price is (1/n) * sum over paths and columns i = 0..m-1 of
\* realized_payoff[path, i] * D^i, every column counted once.
C4_Aggregation ==
    (pc = "done" /\ n > 0) =>
        /\ ~price.nan
        /\ price.num * n * Pow(discount.den, m - 1)
             = price.den * ColumnTerms(first_payoff, m)

\* a run that realizes payoffs in two different columns after the first
C4_Witness ==
    /\ pc = "done" /\ n > 0 /\ m >= 3
    /\ \E p, q \in Paths : first_payoff[p][2] > 0 /\ first_payoff[q][3] > 0
    /\ price.num > 0

Degenerate(t) == n >= 1 /\ MinOf(S[t].num) = MaxOf(S[t].num)

\* C5: a run that applies scale to a constant price vector at some date ends
\* in an error there and produces no price (stated for the runs of order 2).
C5_DegenerateScaling ==
    (order = 2 /\ \E i \in DOMAIN visited : Degenerate(visited[i])) =>
        /\ pc \in {"error"}
        /\ price = None

Invalid == n <= 0 \/ m <= 0 \/ order <= 0 \/ lambda < 0

\* C6: with an invalid configuration no simulation step, regression or
\* aggregation is performed.
C6_ConfigurationRejected ==
    Invalid =>
        /\ calls.advance = 0
        /\ calls.ridge = 0
        /\ price = None
        /\ pc # "done"

\* C7: for every degree k >= 1 chebyshev_basis returns exactly k columns of
\* n rows, column 0 all ones, column 1 equal to x, and column j >= 2 equal to
\* 2 x column(j-1) - column(j-2).
C7_BasisShape ==
    (pc = "returned" /\ arg.k >= 1) =>
        /\ Len(ret) = arg.k
        /\ \A j \in DOMAIN ret : Len(ret[j].num) = Len(arg.x.num)
        /\ \A p \in DOMAIN arg.x.num : ret[1].num[p] = ret[1].den
        /\ arg.k >= 2 => ret[2] = arg.x
        /\ \A j \in 3..Len(ret) : \A p \in DOMAIN arg.x.num :
              ret[j].num[p] * arg.x.den * ret[j - 1].den * ret[j - 2].den
                = ret[j].den * (2 * arg.x.num[p] * ret[j - 1].num[p] * ret[j - 2].den
                                  - ret[j - 2].num[p] * arg.x.den * ret[j - 1].den)

Selected == pc \in {"aggregate", "done"}

\* C8: a non-zero realized payoff at date t means cashflow[t] >
\* continuation_value[t] at t and at no earlier date, and a path on which the
\* condition holds at no date realizes nothing (stated for the runs of order
\* 2 whose continuation values are numbers).
C8_RealizedDate ==
    (Selected /\ NoNaN /\ order = 2) =>
        \A p \in Paths :
            /\ \A t \in Dates :
                  first_payoff[p][t] # 0 =>
                      /\ EntryGt(cashflow[t], continuation_value[t], p)
                      /\ \A s \in 1..(t - 1) :
                            ~EntryGt(cashflow[s], continuation_value[s], p)
            /\ (\A t \in Dates : ~EntryGt(cashflow[t], continuation_value[t], p))
                  => \A t \in Dates : first_payoff[p][t] = 0

Rank ==
    CASE pc = "start" -> 0
      [] pc = "simulate" -> 1 + calls.advance
      [] pc = "backward" -> m + 2 + Len(visited)
      [] pc = "select" -> 2 * m + 2
      [] pc = "aggregate" -> 2 * m + 3
      [] OTHER -> 2 * m + 4

C10_Counts ==
    /\ calls.advance <= m
    /\ calls.ridge <= m - 1 \/ calls.ridge = 0
    /\ DOMAIN S = 0..calls.advance \/ pc = "start" \/ m = 0
    /\ (pc # "start" /\ m >= 1) => S[0] = Const(Spot, n)
    /\ (pc \in {"backward", "select", "aggregate", "done"}) => calls.advance = m
    /\ pc = "done" => calls.ridge = m - 1
    /\ Rank <= 2 * m + 4
    /\ pc \notin {"done", "error"} => CanStep

====
